---- MODULE Spec2Model ----
(***************************************************************************)
(* Javelin network protocol (packages/net/src/protocol.ts): the message    *)
(* composer (eight parts with a running byte length), the wire encoder and *)
(* the wire decoder, as a state machine over one Message.                  *)
(*                                                                         *)
(* A buffer is a sequence of bytes (0..255).  Offsets are 0-based as in    *)
(* the source; the byte at offset o is buffer[o + 1].                      *)
(***************************************************************************)
EXTENDS Integers, Sequences, FiniteSets, TLC

\* Number of mutation calls made on the message in one behaviour.
MaxCalls == 3

(***************************************************************************)
(* Fixed-width view codecs of @javelin/pack (uint8, uint16, uint32).       *)
(***************************************************************************)
ViewByteLength(view) ==
  CASE view = "uint8" -> 1
    [] view = "uint16" -> 2
    [] view = "uint32" -> 4

\* view.write(bufferView, offset, value): the bytes put at offset.
ViewWrite(view, value) ==
  CASE view = "uint8" -> << value % 256 >>
    [] view = "uint16" -> << (value \div 256) % 256, value % 256 >>
    [] view = "uint32" -> << (value \div 16777216) % 256, (value \div 65536) % 256,
                             (value \div 256) % 256, value % 256 >>

\* A DataView read outside the buffer throws a RangeError.
InRange(buffer, offset, n) == offset >= 0 /\ offset + n <= Len(buffer)

\* view.read(bufferView, offset): the value of the bytes at offset (in range).
ViewRead(view, buffer, offset) ==
  CASE view = "uint8" -> buffer[offset + 1]
    [] view = "uint16" -> buffer[offset + 1] * 256 + buffer[offset + 2]
    [] view = "uint32" -> buffer[offset + 1] * 16777216 + buffer[offset + 2] * 65536
                          + buffer[offset + 3] * 256 + buffer[offset + 4]

RECURSIVE Concat(_)
\* The bytes of a list of byte sequences, one after the other (the list is halved so
\* that a long list does not nest deeply).
Concat(seqs) ==
  IF seqs = << >> THEN << >>
  ELSE IF Len(seqs) = 1 THEN seqs[1]
  ELSE LET half == Len(seqs) \div 2
       IN  Concat(SubSeq(seqs, 1, half)) \o Concat(SubSeq(seqs, half + 1, Len(seqs)))

Slice(buffer, from, to) ==
  IF to <= from THEN << >> ELSE SubSeq(buffer, from + 1, to)

(***************************************************************************)
(* Schema model (@javelin/model): component type id -> tree of nodes.      *)
(***************************************************************************)
Primitive(view) == [kind |-> "Primitive", type |-> view]
Struct(children) == [kind |-> "Struct", fields |-> children]

\* Two models: the same component type ids, different field layouts.
ModelA ==
  [c \in {0, 1} |->
     IF c = 0 THEN Struct(<< Primitive("uint16") >>)
     ELSE Struct(<< Primitive("uint16"),
                    Struct(<< Primitive("uint8"), Primitive("uint8") >>) >>)]

ModelB ==
  [c \in {0, 1} |->
     IF c = 0 THEN Struct(<< Primitive("uint8"), Primitive("uint8") >>)
     ELSE Struct(<< Primitive("uint8"),
                    Struct(<< Primitive("uint8"), Primitive("uint16") >>) >>)]

Models == {ModelA, ModelB}

RECURSIVE FlattenNodes(_)
\* The nodes below a list of nodes, in depth-first order, each node before its children.
FlattenNodes(nodes) ==
  IF nodes = << >> THEN << >>
  ELSE LET n == Head(nodes)
       IN  << n >>
           \o (IF n.kind = "Struct" THEN FlattenNodes(n.fields) ELSE << >>)
           \o FlattenNodes(Tail(nodes))

\* flattenModel(model): component type id -> (field index -> node); field f is flat[f + 1].
flattenModel(model) == [c \in DOMAIN model |-> FlattenNodes(model[c].fields)]

RECURSIVE Leaves(_)
\* The primitive views of a node in layout order.
Leaves(node) ==
  IF node.kind = "Primitive" THEN << node.type >>
  ELSE IF node.fields = << >> THEN << >>
  ELSE Leaves(Head(node.fields)) \o Leaves(Struct(Tail(node.fields)))

(***************************************************************************)
(* @javelin/pack encode/decode of one component against its schema.  A     *)
(* component is [_tid, leaves]: its type id and its primitive field values *)
(* in layout order.                                                        *)
(***************************************************************************)
RECURSIVE WriteLeaves(_, _)
WriteLeaves(views, values) ==
  IF views = << >> THEN << >>
  ELSE ViewWrite(Head(views), Head(values)) \o WriteLeaves(Tail(views), Tail(values))

packEncode(component, schema) == WriteLeaves(Leaves(schema), component.leaves)

RECURSIVE ReadLeaves(_, _, _)
ReadLeaves(views, buffer, offset) ==
  IF views = << >> THEN << >>
  ELSE << ViewRead(Head(views), buffer, offset) >>
       \o ReadLeaves(Tail(views), buffer, offset + ViewByteLength(Head(views)))

RECURSIVE SumByteLength(_)
SumByteLength(views) ==
  IF views = << >> THEN 0 ELSE ViewByteLength(Head(views)) + SumByteLength(Tail(views))

\* decode(buffer, schema): [ok, leaves]; reading past the end of the buffer throws.
packDecode(buffer, schema) ==
  IF SumByteLength(Leaves(schema)) > Len(buffer)
  THEN [ok |-> FALSE, leaves |-> << >>]
  ELSE [ok |-> TRUE, leaves |-> ReadLeaves(Leaves(schema), buffer, 0)]

(***************************************************************************)
(* Wire form of a model (net/src/model.ts): per component type, its id     *)
(* and its schema.  A primitive is one byte (its view); a struct is the    *)
(* marker byte, its number of fields and its fields.                       *)
(***************************************************************************)
ViewId(view) == CASE view = "uint8" -> 1 [] view = "uint16" -> 2 [] view = "uint32" -> 3
ViewOfId(id) == CASE id = 1 -> "uint8" [] id = 2 -> "uint16" [] OTHER -> "uint32"
SchemaMarker == 0

RECURSIVE encodeSchema(_)
encodeSchema(node) ==
  IF node.kind = "Primitive" THEN << ViewId(node.type) >>
  ELSE << SchemaMarker, Len(node.fields) >>
       \o Concat([k \in 1..Len(node.fields) |-> encodeSchema(node.fields[k])])

RECURSIVE ModelBytes(_, _)
ModelBytes(model, ids) ==
  IF ids = {} THEN << >>
  ELSE LET c == CHOOSE x \in ids : \A y \in ids : x <= y
       IN  << c >> \o encodeSchema(model[c]) \o ModelBytes(model, ids \ {c})

encodeModel(model) == ModelBytes(model, DOMAIN model)

\* A schema byte; an index past the end of the section reads as a primitive.
SchemaByte(encoded, i) == IF i < Len(encoded) THEN encoded[i + 1] ELSE 1

RECURSIVE decodeSchema(_, _)
RECURSIVE DecodeFields(_, _, _)
\* decodeSchema(encoded, i): [node, i], the node that starts at index i and the index after it.
decodeSchema(encoded, i) ==
  IF SchemaByte(encoded, i) = SchemaMarker
  THEN LET r == DecodeFields(encoded, i + 2, SchemaByte(encoded, i + 1))
       IN  [node |-> Struct(r.nodes), i |-> r.i]
  ELSE [node |-> Primitive(ViewOfId(SchemaByte(encoded, i))), i |-> i + 1]

DecodeFields(encoded, i, n) ==
  IF n = 0 THEN [nodes |-> << >>, i |-> i]
  ELSE LET f == decodeSchema(encoded, i)
           rest == DecodeFields(encoded, f.i, n - 1)
       IN  [nodes |-> << f.node >> \o rest.nodes, i |-> rest.i]

(***************************************************************************)
(* Message parts.  data[k] is a number (isBuffer = FALSE, num) or an       *)
(* ArrayBuffer (isBuffer = TRUE, buf); type[k] is the view of a number and *)
(* "null" for an ArrayBuffer.                                              *)
(***************************************************************************)
Num(value) == [isBuffer |-> FALSE, num |-> value, buf |-> << >>]
Buf(bytes) == [isBuffer |-> TRUE, num |-> 0, buf |-> bytes]

createPart == [data |-> << >>, type |-> << >>, byteLength |-> 0]

\* insert that counts one byte for every value, whatever its view.
insertOneByte(part, data, type) ==
  [part EXCEPT !.data = Append(@, Num(data)),
               !.type = Append(@, type),
               !.byteLength = @ + 1]

insert(part, data, type) ==
  [part EXCEPT !.data = Append(@, Num(data)),
               !.type = Append(@, type),
               !.byteLength = @ + ViewByteLength(type)]

insertBuffer(part, data) ==
  [part EXCEPT !.data = Append(@, Buf(data)),
               !.type = Append(@, "null"),
               !.byteLength = @ + Len(data)]

RECURSIVE SumSeq(_)
\* The sum of a sequence of numbers (the sequence is halved, so that a long one does
\* not nest deeply).
SumSeq(seq) ==
  IF seq = << >> THEN 0
  ELSE IF Len(seq) = 1 THEN seq[1]
  ELSE LET half == Len(seq) \div 2
       IN  SumSeq(SubSeq(seq, 1, half)) + SumSeq(SubSeq(seq, half + 1, Len(seq)))

\* The passes of a loop of inserts on one part: insert and insertBuffer only push on
\* data and type and add to byteLength, so the part after the loop is the part before
\* it followed by what every pass inserts; passes[k] is what pass k inserts, laid out
\* as a part of its own.
InsertPasses(part, passes) ==
  [part EXCEPT !.data = @ \o Concat([k \in DOMAIN passes |-> passes[k].data]),
               !.type = @ \o Concat([k \in DOMAIN passes |-> passes[k].type]),
               !.byteLength = @ + SumSeq([k \in DOMAIN passes |-> passes[k].byteLength])]

\* The loop of insertEntityComponents over the components.
InsertComponents(part, components, model) ==
  InsertPasses(part,
    [k \in DOMAIN components |->
       LET component == components[k]
           componentId == component._tid
           componentEncoded == packEncode(component, model[componentId])
           p1 == insert(createPart, componentId, "uint8")
           p2 == insert(p1, Len(componentEncoded), "uint16")
       IN  insertBuffer(p2, componentEncoded)])

\* insertEntityComponents that leaves the component count out of the record.
insertEntityComponentsNoCount(part, entity, components, model) ==
  InsertComponents(insert(part, entity, "uint32"), components, model)

insertEntityComponents(part, entity, components, model) ==
  InsertComponents(insert(insert(part, entity, "uint32"), Len(components), "uint8"),
                   components, model)

createMessage(model) ==
  [parts |-> [i \in 0..7 |->
                CASE i = 1 -> insertBuffer(createPart, encodeModel(model))
                  [] i = 5 -> [data |-> << >>, type |-> << >>, byteLength |-> 0,
                               changeMapByEntity |-> << >>]
                  [] OTHER -> createPart],
   model |-> model,
   modelFlat |-> flattenModel(model)]

\* copy(from, to): the data and type entries of every part of `from` are pushed on
\* the part of `to`, and its byteLength is added; changeMapByEntity is not touched.
copy(from, to) ==
  [to EXCEPT !.parts =
     [j \in 0..7 |->
        [to.parts[j] EXCEPT !.data = @ \o from.parts[j].data,
                            !.type = @ \o from.parts[j].type,
                            !.byteLength = @ + from.parts[j].byteLength]]]

reset(message) ==
  [message EXCEPT !.parts =
     [i \in 0..7 |->
        IF i = 5
        THEN [data |-> << >>, type |-> << >>, byteLength |-> 0, changeMapByEntity |-> << >>]
        ELSE [data |-> << >>, type |-> << >>, byteLength |-> 0]]]

spawn(message, entity, components) ==
  [message EXCEPT !.parts[2] = insertEntityComponents(@, entity, components, message.model)]

attach(message, entity, components) ==
  [message EXCEPT !.parts[3] = insertEntityComponents(@, entity, components, message.model)]

update(message, entity, components) ==
  [message EXCEPT !.parts[4] = insertEntityComponents(@, entity, components, message.model)]

\* The loop of detach over the component type ids.
InsertIds(part, componentIds) ==
  InsertPasses(part,
    [k \in DOMAIN componentIds |-> insert(createPart, componentIds[k], "uint8")])

\* detach that leaves the number of component type ids out of the record.
detachOmitLength(message, entity, componentIds) ==
  [message EXCEPT !.parts[6] = InsertIds(insert(@, entity, "uint32"), componentIds)]

detach(message, entity, componentIds) ==
  [message EXCEPT !.parts[6] =
     InsertIds(insert(insert(@, entity, "uint32"), Len(componentIds), "uint8"), componentIds)]

destroy(message, entity) ==
  [message EXCEPT !.parts[7] = insert(@, entity, "uint32")]

tick(message, t) ==
  [message EXCEPT !.parts[0] = insert(@, t, "uint32")]

(***************************************************************************)
(* Patches.  A ChangeSet is [fields, fieldsCount]; a field is NO_OP or a   *)
(* change [field, traverse, value] (traverse << >> when there is none).    *)
(* changeMapByEntity is the Map in insertion order: a sequence of          *)
(* [entity, changeMap], changeMap a sequence of [componentId, changeSet].  *)
(***************************************************************************)
NO_OP == [noop |-> TRUE]
Change(field, traverse, value) ==
  [noop |-> FALSE, field |-> field, traverse |-> traverse, value |-> value]

\* The node of a field index in a flattened component type, if it is a primitive one.
IsPrimitiveField(flat, field) ==
  field + 1 \in DOMAIN flat /\ flat[field + 1].kind = "Primitive"

RECURSIVE CalcFields(_, _)
\* calcChangeByteLength's loop: [threw, byteLength].
CalcFields(fields, flat) ==
  IF fields = << >> THEN [threw |-> FALSE, byteLength |-> 0]
  ELSE LET change == Head(fields)
           rest == CalcFields(Tail(fields), flat)
       IN  IF change = NO_OP THEN rest
           ELSE IF ~IsPrimitiveField(flat, change.field)
           THEN [threw |-> TRUE, byteLength |-> 0]
           ELSE [threw |-> rest.threw,
                 byteLength |-> 1 + 1 + 2 * Len(change.traverse)
                                + ViewByteLength(flat[change.field + 1].type)
                                + rest.byteLength]

\* calcChangeByteLength without its assertion: a change of a field that is not a
\* primitive one is passed over.
calcChangeByteLengthUnasserted(changeSet, flat) ==
  CalcFields(SelectSeq(changeSet.fields,
                       LAMBDA change : IF change = NO_OP THEN TRUE
                                       ELSE IsPrimitiveField(flat, change.field)),
             flat)

calcChangeByteLength(changeSet, flat) == CalcFields(changeSet.fields, flat)

MapHas(map, key) == \E k \in DOMAIN map : map[k][1] = key
MapIndex(map, key) == CHOOSE k \in DOMAIN map : map[k][1] = key
MapGet(map, key) == map[MapIndex(map, key)][2]
\* Map.set: a new key goes last, an existing key keeps its place.
MapSet(map, key, value) ==
  IF MapHas(map, key) THEN [map EXCEPT ![MapIndex(map, key)] = << key, value >>]
  ELSE Append(map, << key, value >>)

\* The byte-length correction made before the new ChangeSet is stored: the entity
\* header once per entity, the component header once per component, and the cost of
\* the ChangeSet that is replaced taken off.
patchDeltaNoSubtract(isNewEntity, hasExisting, existingByteLength) ==
  (IF isNewEntity THEN 4 ELSE 0) + (IF hasExisting THEN 0 ELSE 1 + 1)

patchDelta(isNewEntity, hasExisting, existingByteLength) ==
  (IF isNewEntity THEN 4 ELSE 0)
  + (IF hasExisting THEN 0 - existingByteLength ELSE 1 + 1)

\* changeMap.set(componentId, changeSet)
setChangeKeepFirst(changeMap, componentId, changeSet) ==
  IF MapHas(changeMap, componentId) THEN changeMap
  ELSE Append(changeMap, << componentId, changeSet >>)

setChange(changeMap, componentId, changeSet) == MapSet(changeMap, componentId, changeSet)

\* The early return of patch: a ChangeSet that counts no field is not recorded.
\* patch without the early return.
isIgnoredNever(changeSet) == FALSE

isIgnored(changeSet) == changeSet.fieldsCount = 0

\* patch(message, entity, componentId, changeSet): [message, threw].
patch(message, entity, componentId, changeSet) ==
  LET part == message.parts[5]
      byEntity == part.changeMapByEntity
  IN
  IF isIgnored(changeSet) THEN [message |-> message, threw |-> FALSE]
  ELSE
    LET isNewEntity == ~MapHas(byEntity, entity)
        changeMap == IF isNewEntity THEN << >> ELSE MapGet(byEntity, entity)
        componentFieldTypes == message.modelFlat[componentId]
        hasExisting == MapHas(changeMap, componentId)
        existing == IF hasExisting
                    THEN calcChangeByteLength(MapGet(changeMap, componentId),
                                              componentFieldTypes)
                    ELSE [threw |-> FALSE, byteLength |-> 0]
        delta == patchDelta(isNewEntity, hasExisting, existing.byteLength)
        added == calcChangeByteLength(changeSet, componentFieldTypes)
        \* the entity's map is registered before anything can throw
        withEntity == MapSet(byEntity, entity, changeMap)
        withChange == MapSet(byEntity, entity, setChange(changeMap, componentId, changeSet))
    IN
    IF existing.threw
    THEN [message |-> [message EXCEPT !.parts[5].changeMapByEntity = withEntity],
          threw |-> TRUE]
    ELSE IF added.threw
    THEN [message |-> [message EXCEPT !.parts[5].changeMapByEntity = withChange],
          threw |-> TRUE]
    ELSE [message |-> [message EXCEPT !.parts[5].changeMapByEntity = withChange,
                                      !.parts[5].byteLength = @ + delta + added.byteLength],
          threw |-> FALSE]

(***************************************************************************)
(* Wire encoder.  encodePart is the list of writes it makes after the part *)
(* header, each [tag, bytes]; a failed assertion ends the list (threw).    *)
(***************************************************************************)
Write(tag, view, value) == [tag |-> tag, value |-> value, bytes |-> ViewWrite(view, value)]

encodePartHeader(byteLength) == ViewWrite("uint16", byteLength)

RECURSIVE TraverseWrites(_)
TraverseWrites(traverse) ==
  IF traverse = << >> THEN << >>
  ELSE << Write("traverseKey", "uint16", Head(traverse)) >> \o TraverseWrites(Tail(traverse))

RECURSIVE FieldWrites(_, _)
\* The loop over the fields of one ChangeSet: [writes, threw].
FieldWrites(fields, type) ==
  IF fields = << >> THEN [writes |-> << >>, threw |-> FALSE]
  ELSE LET change == Head(fields)
       IN  IF change = NO_OP THEN FieldWrites(Tail(fields), type)
           ELSE LET head == << Write("field", "uint8", change.field),
                               Write("traverseLength", "uint8", Len(change.traverse)) >>
                            \o TraverseWrites(change.traverse)
                IN  IF ~IsPrimitiveField(type, change.field)
                    THEN [writes |-> head, threw |-> TRUE]
                    ELSE LET rest == FieldWrites(Tail(fields), type)
                         IN  [writes |-> head
                                \o << Write("value", type[change.field + 1].type, change.value) >>
                                \o rest.writes,
                              threw |-> rest.threw]

RECURSIVE ChangeMapWrites(_, _)
\* changeMap.forEach of one entity: [writes, threw].
ChangeMapWrites(changeMap, modelFlat) ==
  IF changeMap = << >> THEN [writes |-> << >>, threw |-> FALSE]
  ELSE LET componentId == Head(changeMap)[1]
           changeSet == Head(changeMap)[2]
           head == << Write("componentId", "uint8", componentId),
                      Write("fieldsCount", "uint8", changeSet.fieldsCount) >>
           fields == FieldWrites(changeSet.fields, modelFlat[componentId])
       IN  IF fields.threw THEN [writes |-> head \o fields.writes, threw |-> TRUE]
           ELSE LET rest == ChangeMapWrites(Tail(changeMap), modelFlat)
                IN  [writes |-> head \o fields.writes \o rest.writes, threw |-> rest.threw]

RECURSIVE PatchWrites(_, _)
\* changeMapByEntity.forEach: [writes, threw].
PatchWrites(byEntity, modelFlat) ==
  IF byEntity = << >> THEN [writes |-> << >>, threw |-> FALSE]
  ELSE LET head == << Write("entity", "uint32", Head(byEntity)[1]) >>
           changes == ChangeMapWrites(Head(byEntity)[2], modelFlat)
       IN  IF changes.threw THEN [writes |-> head \o changes.writes, threw |-> TRUE]
           ELSE LET rest == PatchWrites(Tail(byEntity), modelFlat)
                IN  [writes |-> head \o changes.writes \o rest.writes, threw |-> rest.threw]

\* The default case: data[k] written with type[k], an ArrayBuffer copied as it is.
DataWrites(part) ==
  [k \in 1..Len(part.data) |->
     IF part.data[k].isBuffer
     THEN [tag |-> "buffer", value |-> 0, bytes |-> part.data[k].buf]
     ELSE Write("data", part.type[k], part.data[k].num)]

encodePart(message, partsIndex) ==
  IF partsIndex = 5
  THEN PatchWrites(message.parts[5].changeMapByEntity, message.modelFlat)
  ELSE [writes |-> DataWrites(message.parts[partsIndex]), threw |-> FALSE]

WriteBytes(writes) == Concat([k \in 1..Len(writes) |-> writes[k].bytes])

\* encodeMessage that leaves the excluded model section out, header and all.
EncodeSectionOmitExcluded(message, includeModel, i) ==
  IF i = 1 /\ ~includeModel
  THEN [bytes |-> << >>, threw |-> FALSE]
  ELSE LET r == encodePart(message, i)
       IN  [bytes |-> encodePartHeader(message.parts[i].byteLength) \o WriteBytes(r.writes),
            threw |-> r.threw]

\* The bytes of one section as encodeMessage emits it: [bytes, threw].
EncodeSection(message, includeModel, i) ==
  IF i = 1 /\ ~includeModel
  THEN [bytes |-> encodePartHeader(0), threw |-> FALSE]
  ELSE LET r == encodePart(message, i)
       IN  [bytes |-> encodePartHeader(message.parts[i].byteLength) \o WriteBytes(r.writes),
            threw |-> r.threw]

RECURSIVE SumLengths(_, _, _)
\* The first loop of encodeMessage, from part i on.
SumLengths(message, includeModel, i) ==
  IF i > 7 THEN 0
  ELSE 2 + (IF i = 1 /\ ~includeModel THEN 0 ELSE message.parts[i].byteLength)
       + SumLengths(message, includeModel, i + 1)

RECURSIVE EncodeSections(_, _, _)
\* The second loop of encodeMessage, from part i on: [bytes, threw].
EncodeSections(message, includeModel, i) ==
  IF i > 7 THEN [bytes |-> << >>, threw |-> FALSE]
  ELSE LET s == EncodeSection(message, includeModel, i)
       IN  IF s.threw THEN s
           ELSE LET rest == EncodeSections(message, includeModel, i + 1)
                IN  [bytes |-> s.bytes \o rest.bytes, threw |-> rest.threw]

\* encodeMessage(message, includeModel): [threw, length, offset, buffer].  The buffer
\* is allocated with `length` zero bytes; a write past its end throws a RangeError.
encodeMessage(message, includeModel) ==
  LET length == SumLengths(message, includeModel, 0)
      s == EncodeSections(message, includeModel, 0)
  IN  IF s.threw \/ Len(s.bytes) > length
      THEN [threw |-> TRUE, length |-> length, offset |-> 0, buffer |-> << >>]
      ELSE [threw |-> FALSE, length |-> length, offset |-> Len(s.bytes),
            buffer |-> s.bytes \o [k \in 1..(length - Len(s.bytes)) |-> 0]]

(***************************************************************************)
(* Wire decoder.  The handlers' invocations are collected as events in the *)
(* order they are made; a decoder returns [offset, events, threw].         *)
(***************************************************************************)
Undefined == [defined |-> FALSE]
Given(model) == [defined |-> TRUE, model |-> model]

Done(offset, events) == [offset |-> offset, events |-> events, threw |-> FALSE]
Threw(offset, events) == [offset |-> offset, events |-> events, threw |-> TRUE]

RECURSIVE DecodeSchemas(_, _, _)
\* The while loop of decodeModel: the config Map as a function, a later id overriding.
DecodeSchemas(encoded, i, config) ==
  IF i >= Len(encoded) THEN config
  ELSE LET componentTypeId == encoded[i + 1]
           r == decodeSchema(encoded, i + 1)
       IN  DecodeSchemas(encoded, r.i,
             [c \in DOMAIN config \cup {componentTypeId} |->
                IF c = componentTypeId THEN r.node ELSE config[c]])

\* decodeModel(buffer, bufferView, offset, onModel)
decodeModel(buffer, offset) ==
  IF ~InRange(buffer, offset, 2) THEN Threw(offset, << >>)
  ELSE LET length == ViewRead("uint16", buffer, offset)
       IN  IF length = 0 THEN Done(offset + 2, << >>)
           ELSE IF ~InRange(buffer, offset + 2, length) THEN Threw(offset + 2, << >>)
           ELSE LET encoded == Slice(buffer, offset + 2, offset + 2 + length)
                    model == DecodeSchemas(encoded, 0, << >>)
                IN  Done(offset + 2 + length, << [h |-> "onModel", model |-> model] >>)

RECURSIVE DecodeComponents(_, _, _, _)
\* The for loop over the components of one entity record: [offset, components, threw].
DecodeComponents(buffer, model, offset, n) ==
  IF n = 0 THEN [offset |-> offset, components |-> << >>, threw |-> FALSE]
  ELSE IF ~InRange(buffer, offset, 3)
  THEN [offset |-> offset, components |-> << >>, threw |-> TRUE]
  ELSE LET componentTypeId == ViewRead("uint8", buffer, offset)
           encodedComponentLength == ViewRead("uint16", buffer, offset + 1)
           start == offset + 3
           stop == IF start + encodedComponentLength > Len(buffer)
                   THEN Len(buffer) ELSE start + encodedComponentLength
           encodedComponent == Slice(buffer, start, stop)
           next == start + encodedComponentLength
           \* model[componentTypeId] of an undefined model, or of an unknown id, throws
           component == IF model.defined /\ componentTypeId \in DOMAIN model.model
                        THEN packDecode(encodedComponent, model.model[componentTypeId])
                        ELSE [ok |-> FALSE, leaves |-> << >>]
       IN  IF ~component.ok
           THEN [offset |-> next, components |-> << >>, threw |-> TRUE]
           ELSE LET rest == DecodeComponents(buffer, model, next, n - 1)
                IN  [offset |-> rest.offset,
                     components |-> << [_tid |-> componentTypeId, leaves |-> component.leaves] >>
                                    \o rest.components,
                     threw |-> rest.threw]

RECURSIVE DecodeEntityRecords(_, _, _, _, _)
\* The while (offset < end) loop of decodeEntityComponentsPart.
DecodeEntityRecords(buffer, model, offset, end, handler) ==
  IF ~(offset < end) THEN Done(offset, << >>)
  ELSE IF ~InRange(buffer, offset, 5) THEN Threw(offset, << >>)
  ELSE LET entity == ViewRead("uint32", buffer, offset)
           componentLength == ViewRead("uint8", buffer, offset + 4)
           c == DecodeComponents(buffer, model, offset + 5, componentLength)
       IN  IF c.threw THEN Threw(c.offset, << >>)
           ELSE LET event == [h |-> handler, entity |-> entity, components |-> c.components]
                    rest == DecodeEntityRecords(buffer, model, c.offset, end, handler)
                IN  [offset |-> rest.offset, events |-> << event >> \o rest.events,
                     threw |-> rest.threw]

\* end is taken from the offset of the header, before the header is skipped.
decodeEntityComponentsPart(buffer, model, offset, handler) ==
  IF ~InRange(buffer, offset, 2) THEN Threw(offset, << >>)
  ELSE LET length == ViewRead("uint16", buffer, offset)
           end == offset + length
       IN  DecodeEntityRecords(buffer, model, offset + 2, end, handler)

\* The for loop of decodeDetach over the component type ids of one record: the id
\* read in pass k is the byte at offset + k - 1.
DecodeTypeIds(buffer, offset, n) ==
  [k \in 1..n |-> ViewRead("uint8", buffer, offset + k - 1)]

RECURSIVE DecodeDetachRecords(_, _, _)
DecodeDetachRecords(buffer, offset, detachEnd) ==
  IF ~(offset < detachEnd) THEN Done(offset, << >>)
  ELSE IF ~InRange(buffer, offset, 5) THEN Threw(offset, << >>)
  ELSE LET entity == ViewRead("uint32", buffer, offset)
           componentTypeIdsLength == ViewRead("uint8", buffer, offset + 4)
       IN  IF ~InRange(buffer, offset + 5, componentTypeIdsLength)
           THEN Threw(offset + 5, << >>)
           ELSE LET event == [h |-> "onDetach", entity |-> entity,
                              componentTypeIds |->
                                DecodeTypeIds(buffer, offset + 5, componentTypeIdsLength)]
                    rest == DecodeDetachRecords(buffer, offset + 5 + componentTypeIdsLength,
                                                detachEnd)
                IN  [offset |-> rest.offset, events |-> << event >> \o rest.events,
                     threw |-> rest.threw]

decodeDetach(buffer, offset) ==
  IF ~InRange(buffer, offset, 2) THEN Threw(offset, << >>)
  ELSE LET detachLength == ViewRead("uint16", buffer, offset)
           detachEnd == offset + detachLength
       IN  DecodeDetachRecords(buffer, offset + 2, detachEnd)

RECURSIVE DecodeDestroyRecords(_, _, _)
DecodeDestroyRecords(buffer, offset, destroyEnd) ==
  IF ~(offset < destroyEnd) THEN Done(offset, << >>)
  ELSE IF ~InRange(buffer, offset, 4) THEN Threw(offset, << >>)
  ELSE LET event == [h |-> "onDestroy", entity |-> ViewRead("uint32", buffer, offset)]
           rest == DecodeDestroyRecords(buffer, offset + 4, destroyEnd)
       IN  [offset |-> rest.offset, events |-> << event >> \o rest.events,
            threw |-> rest.threw]

decodeDestroy(buffer, offset) ==
  IF ~InRange(buffer, offset, 2) THEN Threw(offset, << >>)
  ELSE LET destroyLength == ViewRead("uint16", buffer, offset)
           destroyEnd == offset + destroyLength
       IN  DecodeDestroyRecords(buffer, offset + 2, destroyEnd)

\* _onModel: the model decoded from the stream replaces the model argument.
\* _onModel that raises onModel and leaves the model argument as it was.
onModelKeepArgument(model, m) == model

onModelAssign(model, m) == Given(m)

\* The assertion that a model was supplied or decoded.
\* No assertion: decoding goes on without a model.
assertModelSkipped(model) == TRUE

assertModel(model) == model.defined

\* decodeMessage(buffer, handlers, model): [offset, events, threw]; model is
\* Undefined or Given(m).
decodeMessage(buffer, model) ==
  IF ~InRange(buffer, 0, 2) THEN Threw(0, << >>)
  ELSE
  LET tickLength == ViewRead("uint16", buffer, 0)
      tickThrew == tickLength > 0 /\ ~InRange(buffer, 2, 4)
      tickEvents == IF tickLength > 0 /\ ~tickThrew
                    THEN << [h |-> "onTick", tick |-> ViewRead("uint32", buffer, 2)] >>
                    ELSE << >>
      o1 == IF tickLength > 0 THEN 2 + tickLength ELSE 2
      dm == decodeModel(buffer, o1)
      m == IF dm.events # << >> THEN onModelAssign(model, dm.events[1].model) ELSE model
      e1 == tickEvents \o dm.events
  IN
  IF tickThrew THEN Threw(2, << >>)
  ELSE IF dm.threw THEN Threw(dm.offset, e1)
  ELSE IF ~assertModel(m) THEN Threw(dm.offset, e1)
  ELSE
  LET sp == decodeEntityComponentsPart(buffer, m, dm.offset, "onCreate")
      at == decodeEntityComponentsPart(buffer, m, sp.offset, "onAttach")
      up == decodeEntityComponentsPart(buffer, m, at.offset, "onUpdate")
      e2 == e1 \o sp.events
      e3 == e2 \o at.events
      e4 == e3 \o up.events
  IN
  IF sp.threw THEN Threw(sp.offset, e2)
  ELSE IF at.threw THEN Threw(at.offset, e3)
  ELSE IF up.threw THEN Threw(up.offset, e4)
  ELSE IF ~InRange(buffer, up.offset, 2) THEN Threw(up.offset, e4)
  ELSE
  LET patchLength == ViewRead("uint16", buffer, up.offset)
      e5 == e4 \o << [h |-> "onPatch", model |-> m, offset |-> up.offset] >>
      de == decodeDetach(buffer, up.offset + patchLength + 2)
      e6 == e5 \o de.events
  IN
  IF de.threw THEN Threw(de.offset, e6)
  ELSE LET ds == decodeDestroy(buffer, de.offset)
       IN  [offset |-> ds.offset, events |-> e6 \o ds.events, threw |-> ds.threw]

(***************************************************************************)
(* The program: one Message built by createMessage and the calls made on   *)
(* it.  calls records, per section, the calls made since the last reset.   *)
(***************************************************************************)
VARIABLES message, calls, ncalls, threw

\* The state of one query (packages/ecs/src/query.ts) and of the worlds it is used in:
\* worlds[w] is the list of archetypes of world w, currentWorld the world whose systems
\* run, filtersNot the excluded component types, recordsByWorldId[w] the cached records
\* of world w, and yielded what the query yielded since the last call of not.
VARIABLES worlds, currentWorld, filtersNot, recordsByWorldId, yielded

netVars == << message, calls, ncalls, threw >>
ecsVars == << worlds, currentWorld, filtersNot, recordsByWorldId, yielded >>

vars == << message, calls, ncalls, threw, worlds, currentWorld, filtersNot,
           recordsByWorldId, yielded >>

Entities == {7, 300}
Ticks == {258}

\* Component lists that conform to a model: spawn's default (no component) and a list
\* of two components of different types.
ComponentLists(model) ==
  IF model = ModelA
  THEN { << >>,
         << [_tid |-> 1, leaves |-> << 513, 1, 2 >>], [_tid |-> 0, leaves |-> << 9 >>] >> }
  ELSE { << >>,
         << [_tid |-> 1, leaves |-> << 100, 1, 515 >>], [_tid |-> 0, leaves |-> << 9, 8 >>] >> }

\* The lists attach and update are called with.
RestComponentLists(model) == ComponentLists(model) \ { << >> }

ComponentIdLists == { << >>, << 1, 0 >> }

ChangeSets ==
  { [fields |-> << Change(0, << >>, 80) >>, fieldsCount |-> 1],
    [fields |-> << NO_OP, Change(2, << 2, 517 >>, 3), Change(3, << >>, 9) >>, fieldsCount |-> 2],
    [fields |-> << NO_OP, NO_OP, NO_OP >>, fieldsCount |-> 0] }

\* The data-model invariant of a ChangeSet: it has no more fields than the component
\* type, and every change names a primitive field.
Conforms(changeSet, flat) ==
  /\ Len(changeSet.fields) <= Len(flat)
  /\ \A k \in DOMAIN changeSet.fields :
     IF changeSet.fields[k] = NO_OP THEN TRUE
     ELSE IsPrimitiveField(flat, changeSet.fields[k].field)

\* ChangeSets that break the invariant: a change of field 1, the nested struct of
\* component type 1 (and no field at all of component type 0 in ModelA).
UnsupportedChangeSets ==
  { [fields |-> << NO_OP, Change(1, << >>, 5) >>, fieldsCount |-> 1],
    [fields |-> << Change(0, << >>, 80), Change(1, << 4 >>, 5) >>, fieldsCount |-> 2] }

\* Some change of the ChangeSet names a field that is not a primitive one.
HasUnsupported(changeSet, flat) ==
  \E k \in DOMAIN changeSet.fields :
    IF changeSet.fields[k] = NO_OP THEN FALSE
    ELSE ~IsPrimitiveField(flat, changeSet.fields[k].field)

\* A list of 256 component type ids: one more than a 1-byte count can hold.
ManyComponentIds == [k \in 1..256 |-> (k - 1) % 128]

\* A list of 256 components that conform to a model: one more than a 1-byte count
\* can hold.
ManyComponents(model) ==
  [k \in 1..256 |->
     IF model = ModelA THEN [_tid |-> 1, leaves |-> << 513, 1, 2 >>]
     ELSE [_tid |-> 1, leaves |-> << 100, 1, 515 >>]]

\* What one change made by the caller makes of the contents of a ChangeSet: a change
\* turned into NO_OP, a change added in the place of a NO_OP, or the traverse path of
\* a change made one key longer; fieldsCount follows the number of changes.
Edits(changeSet) ==
  LET fields == changeSet.fields
      changes == {k \in DOMAIN fields : fields[k] # NO_OP}
      noOps == {k \in DOMAIN fields : fields[k] = NO_OP}
  IN  { [fields |-> [fields EXCEPT ![k] = NO_OP],
         fieldsCount |-> changeSet.fieldsCount - 1] : k \in changes }
      \cup
      { [fields |-> [fields EXCEPT ![k] = Change(0, << >>, 80)],
         fieldsCount |-> changeSet.fieldsCount + 1] : k \in noOps }
      \cup
      { [fields |-> [fields EXCEPT ![k] = Change(@.field, @.traverse \o << 4 >>, @.value)],
         fieldsCount |-> changeSet.fieldsCount] : k \in changes }

NoCalls ==
  [tick |-> << >>, spawn |-> << >>, attach |-> << >>, update |-> << >>,
   patch |-> << >>, detach |-> << >>, destroy |-> << >>, copy |-> << >>]

\* The calls made on the messages that are copied from: a message with one pending
\* patch, one with a tick, a spawn, a detach and a destroy, and one with nothing but
\* its model.
SourceLogs ==
  { [NoCalls EXCEPT !.patch = << [entity |-> 7, componentId |-> 1,
                                  changeSet |-> [fields |-> << Change(0, << >>, 80) >>,
                                                 fieldsCount |-> 1]] >>],
    [NoCalls EXCEPT !.tick = << 259 >>,
                    !.spawn = << [entity |-> 300, components |-> << >>] >>,
                    !.detach = << [entity |-> 7, componentIds |-> << 1, 0 >>] >>,
                    !.destroy = << 7 >>],
    NoCalls }

\* The message a source log leaves: createMessage(model) and the calls of the log.
Compose(model, log) ==
  LET m0 == createMessage(model)
      m1 == IF log.tick = << >> THEN m0 ELSE tick(m0, log.tick[1])
      m2 == IF log.spawn = << >> THEN m1
            ELSE spawn(m1, log.spawn[1].entity, log.spawn[1].components)
      m3 == IF log.patch = << >> THEN m2
            ELSE patch(m2, log.patch[1].entity, log.patch[1].componentId,
                       log.patch[1].changeSet).message
      m4 == IF log.detach = << >> THEN m3
            ELSE detach(m3, log.detach[1].entity, log.detach[1].componentIds)
  IN  IF log.destroy = << >> THEN m4 ELSE destroy(m4, log.destroy[1])

(***************************************************************************)
(* Queries (packages/ecs/src/query.ts).  An archetype is [signature,        *)
(* entities, table]: its sorted component type ids, its entities and one    *)
(* column of components per type of the signature.                          *)
(***************************************************************************)
WorldIds == {0, 1}

\* The signatures archetypes are created with.
Signatures == { << 1 >>, << 1, 2 >>, << 2, 3 >> }

\* createQuery(...selector): the component type ids selected, and the types not() is
\* called with.
layout == << 1 >>
signature == layout
NotSelectors == {2, 3}

\* The entity an archetype of a world is created with.
EntityOf(worldId, sig) == 10 * worldId + Len(sig) + sig[1]

Archetype(worldId, sig) ==
  [signature |-> sig,
   entities |-> << EntityOf(worldId, sig) >>,
   table |-> [k \in DOMAIN sig |->
                << [_tid |-> sig[k], entity |-> EntityOf(worldId, sig)] >>]]

Range(seq) == {seq[k] : k \in DOMAIN seq}

typeIsSuperset(a, b) == Range(b) \subseteq Range(a)

queryMatchesArchetype(not, archetype) ==
  /\ typeIsSuperset(archetype.signature, signature)
  /\ \A k \in DOMAIN archetype.signature : archetype.signature[k] \notin not

\* signature.indexOf(componentTypeId), 1-based.
IndexOf(sig, componentTypeId) == CHOOSE k \in DOMAIN sig : sig[k] = componentTypeId

\* maybeRegisterArchetype(archetype, records): the records after the call.
maybeRegisterArchetype(not, archetype, records) ==
  IF queryMatchesArchetype(not, archetype)
  THEN Append(records,
              [entities |-> archetype.entities,
               columns |-> [k \in DOMAIN layout |->
                              archetype.table[IndexOf(archetype.signature, layout[k])]]])
  ELSE records

RECURSIVE RegisterArchetypes(_, _, _)
\* world.storage.archetypes.forEach(archetype => maybeRegisterArchetype(archetype, records))
RegisterArchetypes(not, archetypes, records) ==
  IF archetypes = << >> THEN records
  ELSE RegisterArchetypes(not, Tail(archetypes),
                          maybeRegisterArchetype(not, Head(archetypes), records))

\* registerWorld(worldId): the records of the world (the subscription to
\* archetypeCreated is the world's entry of recordsByWorldId being defined).
registerWorld(not, archetypes) == RegisterArchetypes(not, archetypes, << >>)

\* recordsByWorldId[__CURRENT_WORLD__] || registerWorld(__CURRENT_WORLD__)
RecordsOrRegister(byWorld, worldId, not, archetypes) ==
  IF byWorld[worldId].defined THEN byWorld[worldId].records
  ELSE registerWorld(not, archetypes)

\* What forEach hands to the iteratee: per record and entity, the entity and its
\* components in layout order.
ForEachCalls(records) ==
  Concat([i \in DOMAIN records |->
            [j \in DOMAIN records[i].entities |->
               [entity |-> records[i].entities[j],
                components |-> [k \in DOMAIN layout |-> records[i].columns[k][j]]]]])

InitEcs ==
  /\ worlds = [w \in WorldIds |-> << >>]
  /\ currentWorld = 0
  /\ filtersNot = {}
  /\ recordsByWorldId = [w \in WorldIds |-> [defined |-> FALSE, records |-> << >>]]
  /\ yielded = << >>

Init ==
  /\ \E model \in Models : message = createMessage(model)
  /\ calls = NoCalls
  /\ ncalls = 0
  /\ threw = FALSE
  /\ InitEcs

Tick ==
  /\ ncalls < MaxCalls
  /\ \E t \in Ticks :
       /\ message' = tick(message, t)
       /\ calls' = [calls EXCEPT !.tick = Append(@, t)]
  /\ ncalls' = ncalls + 1
  /\ threw' = FALSE
  /\ UNCHANGED ecsVars

Spawn ==
  /\ ncalls < MaxCalls
  /\ \E entity \in Entities, components \in ComponentLists(message.model) :
       /\ message' = spawn(message, entity, components)
       /\ calls' = [calls EXCEPT !.spawn =
                      Append(@, [entity |-> entity, components |-> components])]
  /\ ncalls' = ncalls + 1
  /\ threw' = FALSE
  /\ UNCHANGED ecsVars

Attach ==
  /\ ncalls < MaxCalls
  /\ \E entity \in Entities, components \in RestComponentLists(message.model) :
       /\ message' = attach(message, entity, components)
       /\ calls' = [calls EXCEPT !.attach =
                      Append(@, [entity |-> entity, components |-> components])]
  /\ ncalls' = ncalls + 1
  /\ threw' = FALSE
  /\ UNCHANGED ecsVars

Update ==
  /\ ncalls < MaxCalls
  /\ \E entity \in Entities, components \in RestComponentLists(message.model) :
       /\ message' = update(message, entity, components)
       /\ calls' = [calls EXCEPT !.update =
                      Append(@, [entity |-> entity, components |-> components])]
  /\ ncalls' = ncalls + 1
  /\ threw' = FALSE
  /\ UNCHANGED ecsVars

Patch ==
  /\ ncalls < MaxCalls
  /\ \E entity \in Entities, componentId \in DOMAIN message.model, changeSet \in ChangeSets :
       /\ Conforms(changeSet, message.modelFlat[componentId])
       /\ LET r == patch(message, entity, componentId, changeSet)
          IN  /\ message' = r.message
              /\ threw' = r.threw
       /\ calls' = [calls EXCEPT !.patch =
                      Append(@, [entity |-> entity, componentId |-> componentId,
                                 changeSet |-> changeSet])]
  /\ ncalls' = ncalls + 1
  /\ UNCHANGED ecsVars

\* patch called with a ChangeSet that names a field that is not a primitive one.
PatchUnsupported ==
  /\ ncalls < MaxCalls
  /\ \E entity \in Entities, componentId \in DOMAIN message.model,
        changeSet \in UnsupportedChangeSets :
       /\ HasUnsupported(changeSet, message.modelFlat[componentId])
       /\ LET r == patch(message, entity, componentId, changeSet)
          IN  /\ message' = r.message
              /\ threw' = r.threw
       /\ calls' = [calls EXCEPT !.patch =
                      Append(@, [entity |-> entity, componentId |-> componentId,
                                 changeSet |-> changeSet])]
  /\ ncalls' = ncalls + 1
  /\ UNCHANGED ecsVars

\* The caller changes the contents of a ChangeSet after it has submitted it.  patch
\* keeps the object itself in the map (changeMap.set(componentId, changeSet)), so the
\* pending ChangeSet of the pair is the changed one; no call of protocol.ts is made
\* and byteLength stays as it is.
MutateSubmitted ==
  /\ ncalls < MaxCalls
  /\ LET byEntity == message.parts[5].changeMapByEntity
     IN  \E e \in DOMAIN byEntity :
           \E c \in DOMAIN byEntity[e][2] :
             \E edited \in Edits(byEntity[e][2][c][2]) :
               /\ Conforms(edited, message.modelFlat[byEntity[e][2][c][1]])
               /\ message' = [message EXCEPT
                                !.parts[5].changeMapByEntity[e][2][c][2] = edited]
  /\ ncalls' = ncalls + 1
  /\ threw' = FALSE
  /\ UNCHANGED << calls, ecsVars >>

\* patch(message, entity, componentId, changeSet) with the ChangeSet object that is
\* already pending for the pair: existingChanges and changeSet are one object.
Resubmit ==
  /\ ncalls < MaxCalls
  /\ LET byEntity == message.parts[5].changeMapByEntity
     IN  \E e \in DOMAIN byEntity :
           \E c \in DOMAIN byEntity[e][2] :
             LET entity == byEntity[e][1]
                 componentId == byEntity[e][2][c][1]
                 changeSet == byEntity[e][2][c][2]
                 r == patch(message, entity, componentId, changeSet)
             IN  /\ message' = r.message
                 /\ threw' = r.threw
                 /\ calls' = [calls EXCEPT !.patch =
                                Append(@, [entity |-> entity, componentId |-> componentId,
                                           changeSet |-> changeSet])]
  /\ ncalls' = ncalls + 1
  /\ UNCHANGED ecsVars

Detach ==
  /\ ncalls < MaxCalls
  /\ \E entity \in Entities, componentIds \in ComponentIdLists :
       /\ message' = detach(message, entity, componentIds)
       /\ calls' = [calls EXCEPT !.detach =
                      Append(@, [entity |-> entity, componentIds |-> componentIds])]
  /\ ncalls' = ncalls + 1
  /\ threw' = FALSE
  /\ UNCHANGED ecsVars

\* spawn(message, entity, components) with 256 components.
SpawnMany ==
  /\ ncalls < MaxCalls
  /\ \E entity \in Entities :
       LET components == ManyComponents(message.model)
       IN  /\ message' = spawn(message, entity, components)
           /\ calls' = [calls EXCEPT !.spawn =
                          Append(@, [entity |-> entity, components |-> components])]
  /\ ncalls' = ncalls + 1
  /\ threw' = FALSE
  /\ UNCHANGED ecsVars

\* detach(message, entity, ...componentIds) with 256 component type ids.
DetachMany ==
  /\ ncalls < MaxCalls
  /\ \E entity \in Entities :
       /\ message' = detach(message, entity, ManyComponentIds)
       /\ calls' = [calls EXCEPT !.detach =
                      Append(@, [entity |-> entity, componentIds |-> ManyComponentIds])]
  /\ ncalls' = ncalls + 1
  /\ threw' = FALSE
  /\ UNCHANGED ecsVars

Destroy ==
  /\ ncalls < MaxCalls
  /\ \E entity \in Entities :
       /\ message' = destroy(message, entity)
       /\ calls' = [calls EXCEPT !.destroy = Append(@, entity)]
  /\ ncalls' = ncalls + 1
  /\ threw' = FALSE
  /\ UNCHANGED ecsVars

\* copy(from, message) for a message `from` built against the same model.
Copy ==
  /\ ncalls < MaxCalls
  /\ \E log \in SourceLogs :
       /\ message' = copy(Compose(message.model, log), message)
       /\ calls' = [tick |-> calls.tick \o log.tick,
                    spawn |-> calls.spawn \o log.spawn,
                    attach |-> calls.attach \o log.attach,
                    update |-> calls.update \o log.update,
                    patch |-> calls.patch \o log.patch,
                    detach |-> calls.detach \o log.detach,
                    destroy |-> calls.destroy \o log.destroy,
                    copy |-> Append(calls.copy, log)]
  /\ ncalls' = ncalls + 1
  /\ threw' = FALSE
  /\ UNCHANGED ecsVars

Reset ==
  /\ ncalls < MaxCalls
  /\ message' = reset(message)
  /\ calls' = NoCalls
  /\ ncalls' = ncalls + 1
  /\ threw' = FALSE
  /\ UNCHANGED ecsVars

\* world.tick: the systems of a world run with __CURRENT_WORLD__ set to it.
EnterWorld ==
  /\ \E w \in WorldIds : w # currentWorld /\ currentWorld' = w
  /\ UNCHANGED << worlds, filtersNot, recordsByWorldId, yielded >>
  /\ UNCHANGED netVars

\* The storage of a world creates an archetype and dispatches archetypeCreated; the
\* queries registered in the world are the subscribers.
CreateArchetype ==
  /\ \E w \in WorldIds, sig \in Signatures :
       /\ \A k \in DOMAIN worlds[w] : worlds[w][k].signature # sig
       /\ worlds' = [worlds EXCEPT ![w] = Append(@, Archetype(w, sig))]
       /\ recordsByWorldId' =
            IF recordsByWorldId[w].defined
            THEN [recordsByWorldId EXCEPT ![w].records =
                    maybeRegisterArchetype(filtersNot, Archetype(w, sig), @)]
            ELSE recordsByWorldId
  /\ UNCHANGED << currentWorld, filtersNot, yielded >>
  /\ UNCHANGED netVars

\* query.not(T)
Not ==
  /\ \E T \in NotSelectors : T \notin filtersNot /\ filtersNot' = filtersNot \cup {T}
  /\ yielded' = << >>
  /\ UNCHANGED << worlds, currentWorld, recordsByWorldId >>
  /\ UNCHANGED netVars

\* query.forEach(iteratee)
ForEach ==
  /\ LET records == RecordsOrRegister(recordsByWorldId, currentWorld, filtersNot,
                                       worlds[currentWorld])
     IN  /\ recordsByWorldId' = [recordsByWorldId EXCEPT ![currentWorld] =
                                   [defined |-> TRUE, records |-> records]]
         /\ yielded' = ForEachCalls(records)
  /\ UNCHANGED << worlds, currentWorld, filtersNot >>
  /\ UNCHANGED netVars

\* for (const [entities, columns] of query): the records themselves are yielded.
Iterate ==
  /\ LET records == RecordsOrRegister(recordsByWorldId, currentWorld, filtersNot,
                                       worlds[currentWorld])
     IN  /\ recordsByWorldId' = [recordsByWorldId EXCEPT ![currentWorld] =
                                   [defined |-> TRUE, records |-> records]]
         /\ yielded' = records
  /\ UNCHANGED << worlds, currentWorld, filtersNot >>
  /\ UNCHANGED netVars

Next ==
  \/ Tick
  \/ Spawn
  \/ Attach
  \/ Update
  \/ Patch
  \/ Detach
  \/ Destroy
  \/ Reset

Spec == Init /\ [][Next]_vars

\* The calls of a message that is never reset.
NextNoReset ==
  \/ Tick
  \/ Spawn
  \/ Attach
  \/ Update
  \/ Patch
  \/ Detach
  \/ Destroy

SpecNoReset == Init /\ [][NextNoReset]_vars

\* The calls of a caller that also submits ChangeSets of unsupported fields.
NextUnsupported ==
  \/ Spawn
  \/ Patch
  \/ PatchUnsupported
  \/ Destroy
  \/ Reset

SpecUnsupported == Init /\ [][NextUnsupported]_vars

\* The calls of a message that other messages are drained into.
NextCopy ==
  \/ Tick
  \/ Spawn
  \/ Attach
  \/ Update
  \/ Patch
  \/ Detach
  \/ Destroy
  \/ Copy
  \/ Reset

SpecCopy == Init /\ [][NextCopy]_vars

\* A query used by the systems of two worlds while archetypes are created.
NextQuery ==
  \/ EnterWorld
  \/ CreateArchetype
  \/ Not
  \/ ForEach
  \/ Iterate

\* No call is made on the message while the query is used.
InitQuery ==
  /\ message = createMessage(ModelA)
  /\ calls = NoCalls
  /\ ncalls = 0
  /\ threw = FALSE
  /\ InitEcs

SpecQuery == InitQuery /\ [][NextQuery]_vars

\* The calls, on a message from createMessage, of a caller that also detaches 256
\* component types at once.
NextMany ==
  \/ Spawn
  \/ Patch
  \/ Detach
  \/ DetachMany
  \/ Destroy

SpecMany == Init /\ [][NextMany]_vars

\* The calls, on a message from createMessage, of a caller that also spawns an entity
\* with 256 components.
NextManyComponents ==
  \/ Spawn
  \/ SpawnMany
  \/ Attach
  \/ Update
  \/ Destroy

SpecManyComponents == Init /\ [][NextManyComponents]_vars

\* The calls of a caller that keeps its ChangeSet objects, changes them after it has
\* submitted them and submits them again.
NextReuse ==
  \/ Patch
  \/ MutateSubmitted
  \/ Resubmit
  \/ Destroy
  \/ Reset

SpecReuse == Init /\ [][NextReuse]_vars

(***************************************************************************)
(* What a state of the program encodes to and decodes to.                  *)
(***************************************************************************)
Encoded(includeModel) == encodeMessage(message, includeModel)

\* The events of one handler, in the order they were raised.
EventsOf(events, handler) == SelectSeq(events, LAMBDA e : e.h = handler)

\* The events a list of spawn/attach/update calls must decode to.
InsertEvents(log, handler) ==
  [k \in DOMAIN log |->
     [h |-> handler, entity |-> log[k].entity, components |-> log[k].components]]

\* C1 (round trip): the buffer of encodeMessage(message, true), decoded with no model
\* argument, raises onCreate, onAttach and onUpdate once per spawn, attach and update
\* call, with the entity and the component list of the call, in call order.
C1_RoundTrip ==
  LET enc == Encoded(TRUE)
      dec == decodeMessage(enc.buffer, Undefined)
  IN  /\ ~enc.threw
      /\ ~dec.threw
      /\ EventsOf(dec.events, "onCreate") = InsertEvents(calls.spawn, "onCreate")
      /\ EventsOf(dec.events, "onAttach") = InsertEvents(calls.attach, "onAttach")
      /\ EventsOf(dec.events, "onUpdate") = InsertEvents(calls.update, "onUpdate")

\* Two different spawns and an update of two components were made and decoded.
C1_Witness ==
  /\ Len(calls.spawn) = 2
  /\ calls.spawn[1] # calls.spawn[2]
  /\ Len(calls.update) = 1
  /\ Len(calls.update[1].components) = 2
  /\ Len(EventsOf(decodeMessage(Encoded(TRUE).buffer, Undefined).events, "onCreate")) = 2

\* The payload bytes encodePart writes for a part (after its header).
PartPayload(i) == WriteBytes(encodePart(message, i).writes)

RECURSIVE SumByteLengths(_, _)
\* The byteLength fields of the parts from i on, the model part left out when excluded.
SumByteLengths(includeModel, i) ==
  IF i > 7 THEN 0
  ELSE (IF i = 1 /\ ~includeModel THEN 0 ELSE message.parts[i].byteLength)
       + SumByteLengths(includeModel, i + 1)

\* C2 (exact sizing): every part's running byteLength is the number of payload bytes
\* encodePart writes for it; encodeMessage allocates 16 header bytes plus the part
\* byteLengths (the model part counted as 0 when excluded) and its last write ends at
\* the end of the buffer.
C2_ExactSizing ==
  /\ \A i \in 0..7 :
       /\ ~encodePart(message, i).threw
       /\ Len(PartPayload(i)) = message.parts[i].byteLength
  /\ \A includeModel \in BOOLEAN :
       LET enc == Encoded(includeModel)
       IN  /\ ~enc.threw
           /\ enc.length = 16 + SumByteLengths(includeModel, 0)
           /\ Len(enc.buffer) = enc.length
           /\ enc.offset = Len(enc.buffer)

\* A ChangeSet was replaced by one of another size, next to a spawned entity.
C2_Witness ==
  /\ Len(calls.patch) = 2
  /\ calls.patch[1].entity = calls.patch[2].entity
  /\ calls.patch[1].componentId = calls.patch[2].componentId
  /\ calls.patch[1].changeSet.fieldsCount = 2
  /\ calls.patch[2].changeSet.fieldsCount = 1
  /\ message.parts[5].byteLength = 4 + 2 + 4
  /\ message.parts[2].byteLength > 5

RECURSIVE ReplayPatches(_, _)
\* The message after the patch calls of a log, made on msg in order.
ReplayPatches(msg, log) ==
  IF log = << >> THEN msg
  ELSE ReplayPatches(patch(msg, Head(log).entity, Head(log).componentId,
                           Head(log).changeSet).message,
                     Tail(log))

\* The last two patch calls since the reset are for the same entity and component
\* type, each with at least one field that is not NO_OP.
TwoPatchesOfOnePair ==
  LET n == Len(calls.patch)
  IN  /\ n >= 2
      /\ calls.patch[n - 1].entity = calls.patch[n].entity
      /\ calls.patch[n - 1].componentId = calls.patch[n].componentId
      /\ calls.patch[n - 1].changeSet.fieldsCount > 0
      /\ calls.patch[n].changeSet.fieldsCount > 0

\* C3 (patch merge idempotence): after patch(m, e, c, A) and then patch(m, e, c, B),
\* the patch part's byteLength is what it is after patch(m, e, c, B) alone, made in
\* the state before A.
C3_PatchMergeIdempotence ==
  TwoPatchesOfOnePair =>
    LET n == Len(calls.patch)
        onlyB == SubSeq(calls.patch, 1, n - 2) \o << calls.patch[n] >>
    IN  message.parts[5].byteLength
          = ReplayPatches(createMessage(message.model), onlyB).parts[5].byteLength

\* A then B of another size for one pair, in a state that already had a pending patch.
C3_Witness ==
  /\ Len(calls.patch) = 3
  /\ TwoPatchesOfOnePair
  /\ calls.patch[1].changeSet.fieldsCount > 0
  /\ calls.patch[2].changeSet.fieldsCount # calls.patch[3].changeSet.fieldsCount

\* C4 (reset reuse): right after reset(m), encodeMessage(m, includeModel) returns the
\* buffer of encodeMessage(createMessage(M), includeModel), with and without the model.
C4_ResetReuse ==
  (ncalls > 0 /\ calls = NoCalls) =>
    \A includeModel \in BOOLEAN :
      Encoded(includeModel).buffer
        = encodeMessage(createMessage(message.model), includeModel).buffer

RECURSIVE Frames(_, _, _)
\* The sections of a buffer found by following k length headers from offset: each
\* [header, start, length], or one [bad |-> TRUE] where the buffer ends too early.
Frames(buffer, offset, k) ==
  IF k = 0 THEN << >>
  ELSE IF ~InRange(buffer, offset, 2) THEN << [bad |-> TRUE] >>
  ELSE LET length == ViewRead("uint16", buffer, offset)
       IN  IF ~InRange(buffer, offset + 2, length) THEN << [bad |-> TRUE] >>
           ELSE << [bad |-> FALSE, header |-> offset, start |-> offset + 2, length |-> length] >>
                \o Frames(buffer, offset + 2 + length, k - 1)

FramePayload(buffer, frame) == Slice(buffer, frame.start, frame.start + frame.length)

\* A part has no entries.
PartIsEmpty(i) ==
  IF i = 5 THEN message.parts[5].changeMapByEntity = << >>
  ELSE message.parts[i].data = << >>

\* C5 (section framing): a buffer of encodeMessage is eight sections in the order
\* tick, model, spawn, attach, update, patch, detach, destroy, each a 2-byte length
\* header and its payload; a section without entries is a header of 0 and no payload.
C5_SectionFraming ==
  \A includeModel \in BOOLEAN :
    LET enc == Encoded(includeModel)
        frames == Frames(enc.buffer, 0, 8)
    IN  /\ ~enc.threw
        /\ Len(frames) = 8
        /\ \A k \in 1..8 : ~frames[k].bad
        /\ frames[8].start + frames[8].length = Len(enc.buffer)
        /\ \A i \in 0..7 :
             /\ FramePayload(enc.buffer, frames[i + 1])
                  = (IF i = 1 /\ ~includeModel THEN << >> ELSE PartPayload(i))
             /\ (PartIsEmpty(i) \/ (i = 1 /\ ~includeModel)) => frames[i + 1].length = 0
             /\ (~PartIsEmpty(i) /\ ~(i = 1 /\ ~includeModel)) => frames[i + 1].length > 0

\* Sections with entries on both sides of sections without.
C5_Witness ==
  /\ ~PartIsEmpty(0)
  /\ PartIsEmpty(2)
  /\ ~PartIsEmpty(5)
  /\ PartIsEmpty(6)
  /\ ~PartIsEmpty(7)
  /\ Len(Frames(Encoded(FALSE).buffer, 0, 8)) = 8

\* The events of the handlers that deliver entity data and the tick.
DataHandlers == {"onTick", "onCreate", "onAttach", "onUpdate", "onDetach", "onDestroy"}
DataEvents(events) == SelectSeq(events, LAMBDA e : e.h \in DataHandlers)

\* C6 (model omission): encodeMessage(m, false) writes a zero model header and leaves
\* the model bytes out of the allocated length, and decoding it with the model M
\* supplied raises the same onTick/onCreate/onAttach/onUpdate/onDetach/onDestroy
\* events, in the same order, as decoding encodeMessage(m, true) with no model.
C6_ModelOmission ==
  LET without == Encoded(FALSE)
      with == Encoded(TRUE)
      frames == Frames(without.buffer, 0, 2)
  IN  /\ Len(frames) = 2 /\ ~frames[2].bad /\ frames[2].length = 0
      /\ without.length = with.length - message.parts[1].byteLength
      /\ DataEvents(decodeMessage(without.buffer, Given(message.model)).events)
           = DataEvents(decodeMessage(with.buffer, Undefined).events)

SectionHandler ==
  << "onTick", "onModel", "onCreate", "onAttach", "onUpdate", "onPatch", "onDetach",
     "onDestroy" >>

\* C7 (zero-length sections are skipped): decoding a buffer of encodeMessage raises no
\* handler of a section whose length header is 0 (onTick, onModel, onCreate, onAttach,
\* onUpdate, onPatch, onDetach, onDestroy in section order), and the decoder ends at
\* the end of the buffer.
C7_ZeroLengthSkipped ==
  \A includeModel \in BOOLEAN :
    LET buffer == Encoded(includeModel).buffer
        frames == Frames(buffer, 0, 8)
        dec == decodeMessage(buffer, Given(message.model))
    IN  /\ ~dec.threw
        /\ dec.offset = Len(buffer)
        /\ \A i \in 0..7 :
             frames[i + 1].length = 0 => EventsOf(dec.events, SectionHandler[i + 1]) = << >>

AfterModelHandlers == {"onCreate", "onAttach", "onUpdate", "onPatch", "onDetach", "onDestroy"}

\* C8 (missing model is fatal): decodeMessage with no model argument, on a buffer whose
\* model section has length 0, fails and raises none of onCreate, onAttach, onUpdate,
\* onPatch, onDetach, onDestroy.
C8_MissingModelFatal ==
  \A includeModel \in BOOLEAN :
    LET buffer == Encoded(includeModel).buffer
        frames == Frames(buffer, 0, 2)
        dec == decodeMessage(buffer, Undefined)
    IN  frames[2].length = 0 =>
          /\ dec.threw
          /\ \A k \in DOMAIN dec.events : dec.events[k].h \notin AfterModelHandlers

\* A buffer without model whose spawn, patch and destroy sections have entries.
C8_Witness ==
  /\ ~PartIsEmpty(2)
  /\ ~PartIsEmpty(5)
  /\ ~PartIsEmpty(7)
  /\ Frames(Encoded(FALSE).buffer, 0, 2)[2].length = 0
  /\ decodeMessage(Encoded(FALSE).buffer, Undefined).threw

OtherModel(model) == IF model = ModelA THEN ModelB ELSE ModelA

\* What the components of a call, encoded against the message's model, read as under
\* the model `used`.
ReadUnder(components, used) ==
  [k \in DOMAIN components |->
     [_tid |-> components[k]._tid,
      leaves |-> packDecode(packEncode(components[k], message.model[components[k]._tid]),
                            used[components[k]._tid]).leaves]]

InsertEventsUnder(log, handler, used) ==
  [k \in DOMAIN log |->
     [h |-> handler, entity |-> log[k].entity,
      components |-> ReadUnder(log[k].components, used)]]

\* C9 (in-stream model wins): when the model section is not empty, onModel is raised
\* with the model of the stream before any handler of a later section, and the spawn,
\* attach and update sections are decoded with it and onPatch receives it, whatever
\* model the caller supplied; when the model section is empty, onModel is not raised
\* and the caller's model is the one used.
C9_InStreamModelWins ==
  \A includeModel \in BOOLEAN :
    LET buffer == Encoded(includeModel).buffer
        inStream == Frames(buffer, 0, 2)[2].length > 0
    IN  \A supplied \in {message.model, OtherModel(message.model)} :
          LET dec == decodeMessage(buffer, Given(supplied))
              used == IF inStream THEN message.model ELSE supplied
              onModels == {k \in DOMAIN dec.events : dec.events[k].h = "onModel"}
              later == {k \in DOMAIN dec.events : dec.events[k].h \in AfterModelHandlers}
          IN  /\ ~dec.threw
              /\ IF inStream
                 THEN /\ Cardinality(onModels) = 1
                      /\ \A k \in onModels : dec.events[k].model = message.model
                      /\ \A k \in onModels, j \in later : k < j
                 ELSE onModels = {}
              /\ EventsOf(dec.events, "onCreate")
                   = InsertEventsUnder(calls.spawn, "onCreate", used)
              /\ EventsOf(dec.events, "onAttach")
                   = InsertEventsUnder(calls.attach, "onAttach", used)
              /\ EventsOf(dec.events, "onUpdate")
                   = InsertEventsUnder(calls.update, "onUpdate", used)
              /\ \A k \in later :
                   dec.events[k].h = "onPatch" => dec.events[k].model = Given(used)

\* A spawn with components, decoded from a buffer with its model although the caller
\* supplied another model.
C9_Witness ==
  /\ Len(calls.spawn) > 0
  /\ calls.spawn[1].components # << >>
  /\ message.parts[1].byteLength > 0
  /\ EventsOf(decodeMessage(Encoded(TRUE).buffer, Given(OtherModel(message.model))).events,
              "onCreate")
       = InsertEvents(calls.spawn, "onCreate")
  /\ InsertEventsUnder(calls.spawn, "onCreate", OtherModel(message.model))
       # InsertEvents(calls.spawn, "onCreate")

\* The patch calls since the reset whose ChangeSet has a field count other than 0.
CountedPatches == SelectSeq(calls.patch, LAMBDA p : p.changeSet.fieldsCount # 0)

RECURSIVE Distinct(_)
\* A sequence without its repetitions, each element at its first place.
Distinct(seq) ==
  IF seq = << >> THEN << >>
  ELSE LET front == Distinct(SubSeq(seq, 1, Len(seq) - 1))
           last == seq[Len(seq)]
       IN  IF \E k \in DOMAIN front : front[k] = last THEN front ELSE Append(front, last)

PatchedEntities == Distinct([k \in DOMAIN CountedPatches |-> CountedPatches[k].entity])

PatchedComponents(entity) ==
  LET of == SelectSeq(CountedPatches, LAMBDA p : p.entity = entity)
  IN  Distinct([k \in DOMAIN of |-> of[k].componentId])

\* The last counted ChangeSet submitted for a pair.
LatestChangeSet(entity, componentId) ==
  LET of == SelectSeq(CountedPatches,
                      LAMBDA p : p.entity = entity /\ p.componentId = componentId)
  IN  of[Len(of)].changeSet

\* The pending map the calls must leave: per entity and component, the latest ChangeSet.
ExpectedChangeMap ==
  [i \in DOMAIN PatchedEntities |->
     << PatchedEntities[i],
        [j \in DOMAIN PatchedComponents(PatchedEntities[i]) |->
           << PatchedComponents(PatchedEntities[i])[j],
              LatestChangeSet(PatchedEntities[i], PatchedComponents(PatchedEntities[i])[j]) >>] >>]

RECURSIVE ExpectedFieldItems(_)
\* What is written for the fields of a ChangeSet: <<tag, value>> per write.
ExpectedFieldItems(fields) ==
  IF fields = << >> THEN << >>
  ELSE IF Head(fields) = NO_OP THEN ExpectedFieldItems(Tail(fields))
  ELSE << << "field", Head(fields).field >>,
          << "traverseLength", Len(Head(fields).traverse) >> >>
       \o [k \in DOMAIN Head(fields).traverse |-> << "traverseKey", Head(fields).traverse[k] >>]
       \o << << "value", Head(fields).value >> >>
       \o ExpectedFieldItems(Tail(fields))

ExpectedComponentItems(entity, componentId) ==
  << << "componentId", componentId >>,
     << "fieldsCount", LatestChangeSet(entity, componentId).fieldsCount >> >>
  \o ExpectedFieldItems(LatestChangeSet(entity, componentId).fields)

ExpectedEntityItems(entity) ==
  << << "entity", entity >> >>
  \o Concat([j \in DOMAIN PatchedComponents(entity) |->
               ExpectedComponentItems(entity, PatchedComponents(entity)[j])])

ExpectedPatchItems ==
  Concat([i \in DOMAIN PatchedEntities |-> ExpectedEntityItems(PatchedEntities[i])])

\* The writes of the patch section as <<tag, value>>.
PatchItems ==
  LET writes == encodePart(message, 5).writes
  IN  [k \in DOMAIN writes |-> << writes[k].tag, writes[k].value >>]

\* C10 (patch replaces, never merges): the pending ChangeSet of every (entity, component
\* type) pair is the last one with a field count other than 0 submitted for it since the
\* reset, and the patch section writes each pending entity id once, each pending
\* component id once per entity, and the fields of that latest ChangeSet that are not
\* NO_OP, and nothing of an earlier ChangeSet.
C10_PatchReplaces ==
  /\ message.parts[5].changeMapByEntity = ExpectedChangeMap
  /\ ~encodePart(message, 5).threw
  /\ PatchItems = ExpectedPatchItems

\* A ChangeSet replaced by another for one pair, with a second pair pending in between.
C10_Witness ==
  /\ Len(CountedPatches) = 3
  /\ CountedPatches[1].entity = CountedPatches[3].entity
  /\ CountedPatches[1].componentId = CountedPatches[3].componentId
  /\ CountedPatches[1].changeSet # CountedPatches[3].changeSet
  /\ CountedPatches[2].entity # CountedPatches[1].entity
  /\ Len(message.parts[5].changeMapByEntity) = 2

\* The step is a patch call whose ChangeSet counts no field.
EmptyPatchStep ==
  /\ Len(calls'.patch) = Len(calls.patch) + 1
  /\ calls'.patch[Len(calls'.patch)].changeSet.fieldsCount = 0

\* C11 (empty ChangeSet is ignored): patch(m, e, c, cs) with a ChangeSet of no field
\* other than NO_OP leaves the message as it was: no entry for e or c is added to the
\* pending map, a pending ChangeSet of (e, c) is kept, the patch part's byteLength is
\* the same, and the call does not fail.
C11_EmptyChangeSetIgnored ==
  [][EmptyPatchStep => (message' = message /\ ~threw')]_vars

\* An empty ChangeSet was submitted for a pair that has a pending ChangeSet, and for
\* an entity that has none.
C11_Witness ==
  LET n == Len(calls.patch)
  IN  /\ n = 3
      /\ calls.patch[1].changeSet.fieldsCount > 0
      /\ calls.patch[2].changeSet.fieldsCount = 0
      /\ calls.patch[2].entity = calls.patch[1].entity
      /\ calls.patch[2].componentId = calls.patch[1].componentId
      /\ calls.patch[3].changeSet.fieldsCount = 0
      /\ calls.patch[3].entity # calls.patch[1].entity
      /\ message.parts[5].changeMapByEntity
           = << << calls.patch[1].entity,
                   << << calls.patch[1].componentId, calls.patch[1].changeSet >> >> >> >>

\* The step is a patch call whose ChangeSet has a change of a field that is not a
\* primitive one (and a field count other than 0).
UnsupportedPatchStep ==
  /\ Len(calls'.patch) = Len(calls.patch) + 1
  /\ LET p == calls'.patch[Len(calls'.patch)]
     IN  /\ p.changeSet.fieldsCount # 0
         /\ HasUnsupported(p.changeSet, message.modelFlat[p.componentId])

\* A pending ChangeSet has a change of a field that is not a primitive one.
UnsupportedPending ==
  LET byEntity == message.parts[5].changeMapByEntity
  IN  \E i \in DOMAIN byEntity : \E j \in DOMAIN byEntity[i][2] :
        HasUnsupported(byEntity[i][2][j][2], message.modelFlat[byEntity[i][2][j][1]])

\* C12 (unsupported patch target is fatal before bytes are written): a patch call whose
\* ChangeSet has a change (not NO_OP) of a field that is not a primitive node of the
\* flattened model fails, and encodeMessage returns no buffer while such a change is
\* pending, so no returned buffer has bytes of such a change.
C12_UnsupportedTargetFatal ==
  /\ [][UnsupportedPatchStep => threw']_vars
  /\ [](UnsupportedPending => \A includeModel \in BOOLEAN : Encoded(includeModel).threw)

\* An unsupported ChangeSet was submitted for a pair with a pending ChangeSet, the
\* call failed, and encodeMessage fails.
C12_Witness ==
  /\ Len(calls.patch) = 2
  /\ calls.patch[1].entity = calls.patch[2].entity
  /\ calls.patch[1].componentId = calls.patch[2].componentId
  /\ ~HasUnsupported(calls.patch[1].changeSet, message.modelFlat[calls.patch[1].componentId])
  /\ calls.patch[1].changeSet.fieldsCount > 0
  /\ HasUnsupported(calls.patch[2].changeSet, message.modelFlat[calls.patch[2].componentId])
  /\ threw
  /\ UnsupportedPending
  /\ Encoded(TRUE).threw

\* The events a list of detach calls and a list of destroy calls must decode to.
DetachEvents(log) ==
  [k \in DOMAIN log |->
     [h |-> "onDetach", entity |-> log[k].entity, componentTypeIds |-> log[k].componentIds]]

DestroyEvents(log) == [k \in DOMAIN log |-> [h |-> "onDestroy", entity |-> log[k]]]

\* The (entity, component, ChangeSet) triples pending in the messages copied from.
CopiedPatches ==
  SelectSeq(Concat([k \in DOMAIN calls.copy |-> calls.copy[k].patch]),
            LAMBDA p : p.changeSet.fieldsCount # 0)

\* A pair has a pending ChangeSet in the message.
IsPending(entity, componentId) ==
  /\ MapHas(message.parts[5].changeMapByEntity, entity)
  /\ MapHas(MapGet(message.parts[5].changeMapByEntity, entity), componentId)

\* C13 (copy drains every pending mutation): after copy(from, to), `to` encodes and
\* decodes to the records that were pending in `to` followed by those that were pending
\* in `from`, section by section and in their order, and every (entity, component,
\* ChangeSet) pending in from's patch part is pending in to's patch part.
C13_CopyDrains ==
  calls.copy # << >> =>
    LET enc == Encoded(FALSE)
        dec == decodeMessage(enc.buffer, Given(message.model))
    IN  /\ ~enc.threw
        /\ ~dec.threw
        /\ EventsOf(dec.events, "onCreate") = InsertEvents(calls.spawn, "onCreate")
        /\ EventsOf(dec.events, "onAttach") = InsertEvents(calls.attach, "onAttach")
        /\ EventsOf(dec.events, "onUpdate") = InsertEvents(calls.update, "onUpdate")
        /\ EventsOf(dec.events, "onDetach") = DetachEvents(calls.detach)
        /\ EventsOf(dec.events, "onDestroy") = DestroyEvents(calls.destroy)
        /\ \A k \in DOMAIN CopiedPatches :
             IsPending(CopiedPatches[k].entity, CopiedPatches[k].componentId)

\* The tick numbers decodeMessage reports for the message.
ReportedTicks ==
  LET events == EventsOf(decodeMessage(Encoded(FALSE).buffer, Given(message.model)).events,
                         "onTick")
  IN  [k \in DOMAIN events |-> events[k].tick]

\* C14 (at most one tick per message): between resets the tick part holds at most one
\* tick number, the tick section payload is 0 or 4 bytes, and decodeMessage reports by
\* onTick the tick number recorded for the message.
C14_AtMostOneTick ==
  /\ Len(message.parts[0].data) <= 1
  /\ Len(PartPayload(0)) \in {0, 4}
  /\ calls.tick # << >> => ReportedTicks = << calls.tick[Len(calls.tick)] >>

\* The entities the query yielded since the last call of not: the entity of every
\* forEach call and the entities of every record iterated.
YieldedEntities ==
  UNION { IF "entity" \in DOMAIN yielded[k] THEN {yielded[k].entity}
          ELSE Range(yielded[k].entities) : k \in DOMAIN yielded }

\* The archetypes of all worlds.
AllArchetypes == UNION { Range(worlds[w]) : w \in WorldIds }

\* C15 (query exclusion filter): once not(T) was called, no forEach or iteration of
\* the query yields an entity of an archetype whose signature contains T, also when
\* not is called after the query was first iterated in the world.
C15_NotExcludes ==
  \A archetype \in AllArchetypes :
    (Range(archetype.entities) \cap YieldedEntities # {})
      => Range(archetype.signature) \cap filtersNot = {}

\* The archetypes of a world the query must have a record of.
MatchingArchetypes(w) ==
  {archetype \in Range(worlds[w]) :
     /\ Range(signature) \subseteq Range(archetype.signature)
     /\ Range(archetype.signature) \cap filtersNot = {}}

\* C16 (the archetype cache is kept up to date): for every world the query was
\* iterated in, its cached records are one record for every archetype of that world
\* whose signature is a superset of the query signature and has no excluded component,
\* for archetypes created before and after the first iteration, none twice, and no
\* record of an archetype of another world.
C16_CacheUpToDate ==
  \A w \in WorldIds :
    recordsByWorldId[w].defined =>
      LET records == recordsByWorldId[w].records
      IN  /\ \A archetype \in MatchingArchetypes(w) :
               Cardinality({k \in DOMAIN records :
                              records[k].entities = archetype.entities}) = 1
          /\ \A k \in DOMAIN records :
               \E archetype \in MatchingArchetypes(w) :
                 records[k].entities = archetype.entities

\* The place of a handler in the section order.
SectionOf(handler) == CHOOSE i \in 1..8 : SectionHandler[i] = handler

\* C17 (handler ordering): decoding a buffer of encodeMessage raises the handlers in
\* section order (onTick, onModel, the onCreate calls, the onAttach calls, the onUpdate
\* calls, onPatch, the onDetach calls, the onDestroy calls), none of an earlier section
\* after one of a later section, one call per record, and the decoder ends with its
\* offset at the end of the buffer.
C17_HandlerOrdering ==
  \A includeModel \in BOOLEAN :
    LET buffer == Encoded(includeModel).buffer
        dec == decodeMessage(buffer, Given(message.model))
        events == dec.events
    IN  /\ ~dec.threw
        /\ dec.offset = Len(buffer)
        /\ \A j, k \in DOMAIN events :
             j < k => SectionOf(events[j].h) <= SectionOf(events[k].h)
        /\ Len(EventsOf(events, "onTick")) <= 1
        /\ Len(EventsOf(events, "onModel")) <= 1
        /\ Len(EventsOf(events, "onPatch")) = 1
        /\ Len(EventsOf(events, "onCreate")) = Len(calls.spawn)
        /\ Len(EventsOf(events, "onAttach")) = Len(calls.attach)
        /\ Len(EventsOf(events, "onUpdate")) = Len(calls.update)
        /\ Len(EventsOf(events, "onDetach")) = Len(calls.detach)
        /\ Len(EventsOf(events, "onDestroy")) = Len(calls.destroy)

\* C18 (detach/destroy round trip): decoding the encoded message raises onDetach once
\* per detach call, with the entity and the component type ids of the call in their
\* order (an empty list too), and onDestroy once per destroy call with its entity,
\* each in call order.
C18_DetachDestroyRoundTrip ==
  \A includeModel \in BOOLEAN :
    LET dec == decodeMessage(Encoded(includeModel).buffer, Given(message.model))
    IN  /\ ~dec.threw
        /\ EventsOf(dec.events, "onDetach") = DetachEvents(calls.detach)
        /\ EventsOf(dec.events, "onDestroy") = DestroyEvents(calls.destroy)

\* A detach of no component type, a detach of two and a destroy were decoded.
C18_Witness ==
  /\ Len(calls.detach) = 2
  /\ calls.detach[1].componentIds = << >>
  /\ calls.detach[2].componentIds = << 1, 0 >>
  /\ Len(calls.destroy) = 1
  /\ Len(EventsOf(decodeMessage(Encoded(FALSE).buffer, Given(message.model)).events,
                  "onDetach")) = 2

\* C19 (copy keeps sizing exact): after copy(from, to), every part of `to` has a
\* byteLength equal to the number of payload bytes encodePart writes for it, so
\* encodeMessage fills the buffer it allocates and every section header is the number
\* of bytes written for the section.
C19_CopyKeepsSizing ==
  calls.copy # << >> =>
    /\ \A i \in 0..7 : message.parts[i].byteLength = Len(PartPayload(i))
    /\ \A includeModel \in BOOLEAN :
         LET enc == Encoded(includeModel)
         IN  /\ ~enc.threw
             /\ enc.offset = enc.length
             /\ \A i \in 0..7 :
                  LET section == EncodeSection(message, includeModel, i).bytes
                  IN  ViewRead("uint16", section, 0) = Len(section) - 2

\* C20 (a failed patch is atomic): when patch(m, e, c, cs) fails, the message is as it
\* was before the call (no new entry for e in the pending map, no entry of (e, c)
\* holding cs, the same byteLength), and encodeMessage then succeeds and returns the
\* buffer it returned before the call.
C20_FailedPatchAtomic ==
  [][threw' =>
       /\ message' = message
       /\ \A includeModel \in BOOLEAN :
            /\ ~encodeMessage(message', includeModel).threw
            /\ encodeMessage(message', includeModel).buffer
                 = encodeMessage(message, includeModel).buffer]_vars

\* The bytes of the record of a detach call and of a spawn, attach or update call.
DetachRecordSize(call) == 4 + 1 + Len(call.componentIds)

InsertRecordSize(call) ==
  4 + 1 + SumSeq([k \in DOMAIN call.components |->
                    1 + 2 + Len(packEncode(call.components[k],
                                           message.model[call.components[k]._tid]))])

\* The 1-byte count of the record that follows records of the given sizes, read back
\* from the payload of part i.
CountByte(i, sizes) == ViewRead("uint8", PartPayload(i), SumSeq(sizes) + 4)

\* The number of fields of a ChangeSet that are not NO_OP.
ChangesOf(changeSet) == Len(SelectSeq(changeSet.fields, LAMBDA change : change # NO_OP))

\* C21 (length fields never wrap): the 2-byte header written for every section is the
\* number of payload bytes written for it, and every 1-byte count (components of a
\* spawn, attach or update record, type ids of a detach record, fields and traverse
\* keys of a patch record) is the number of items that follow it: no byteLength above
\* 65535 and no count above 255 is written modulo 2^16 or 2^8.
C21_LengthsNeverWrap ==
  /\ \A includeModel \in BOOLEAN, i \in 0..7 :
       LET section == EncodeSection(message, includeModel, i).bytes
       IN  ViewRead("uint16", section, 0) = Len(section) - 2
  /\ \A k \in DOMAIN calls.spawn :
       CountByte(2, [j \in 1..(k - 1) |-> InsertRecordSize(calls.spawn[j])])
         = Len(calls.spawn[k].components)
  /\ \A k \in DOMAIN calls.detach :
       CountByte(6, [j \in 1..(k - 1) |-> DetachRecordSize(calls.detach[j])])
         = Len(calls.detach[k].componentIds)
  /\ LET writes == encodePart(message, 5).writes
         byEntity == message.parts[5].changeMapByEntity
     IN  /\ \A k \in DOMAIN writes :
              writes[k].tag \in {"fieldsCount", "traverseLength"}
                => ViewRead("uint8", writes[k].bytes, 0) = writes[k].value
         /\ \A e \in DOMAIN byEntity : \A c \in DOMAIN byEntity[e][2] :
              byEntity[e][2][c][2].fieldsCount = ChangesOf(byEntity[e][2][c][2])

\* C22 (byte length exact under ChangeSet reuse): the patch part keeps the submitted
\* ChangeSet object itself, and its byteLength is the number of bytes the encoder
\* writes for the patch section also after the caller has changed the contents of a
\* submitted ChangeSet and has encoded, or submitted the same object again for the same
\* pair, before a reset; so encodeMessage neither throws nor leaves bytes unwritten.
C22_ReuseKeepsByteLength ==
  /\ message.parts[5].byteLength = Len(PartPayload(5))
  /\ \A includeModel \in BOOLEAN :
       LET enc == Encoded(includeModel)
       IN  ~enc.threw /\ enc.offset = enc.length

====
